---- MODULE Spec2Model ----
(***************************************************************************)
(* Model of scripts/fetch_standard_codebook.py: the fetch of one tier      *)
(* artifact described by a manifest, with SHA-256 verification, an on-disk *)
(* cache and mirror fallback.  Two independent invocations of main() run   *)
(* against one shared filesystem; every filesystem or network call of the  *)
(* script is one atomic step of the invocation that makes it.              *)
(***************************************************************************)
EXTENDS Integers, Sequences, FiniteSets, TLC

\* Bounds of the model.
MaxUrls == 2        \* longest mirror list of a manifest entry
BodyLen == 2        \* number of chunks of a complete artifact body
MaxTiers == 3       \* longest tier list of the manifests of tier resolution

Procs == {1, 2}     \* the concurrent invocations of main()

\* ------------------------------------------------------------------------
\* Files and digests
\* ------------------------------------------------------------------------
\* A path either holds no file or a file with a sequence of chunks.
NoFile == [exists |-> FALSE, data |-> <<>>]
File(d) == [exists |-> TRUE, data |-> d]

\* The kinds of content: what the manifest describes, another complete
\* body a mirror may serve, and a complete body left in the cache earlier.
Good == "good"
Bad == "bad"
Stale == "stale"
Body(k) == [j \in 1..BodyLen |-> k]
CompleteFiles == {File(Body(k)) : k \in {Good, Bad, Stale}}

HexDigit(c) == CASE c = Good -> "a" [] c = Bad -> "b" [] OTHER -> "c"

\* hashlib.sha256 over the chunks of the file, as lowercase hex: an
\* injective encoding of the content, never empty.
_sha256_file(file) == <<"e">> \o [j \in 1..Len(file.data) |-> HexDigit(file.data[j])]

\* str.lower() and str.strip() on a string held as a sequence of characters.
LowerChar(c) == CASE c = "A" -> "a" [] c = "B" -> "b" [] c = "C" -> "c"
                  [] c = "E" -> "e" [] OTHER -> c
UpperChar(c) == CASE c = "a" -> "A" [] c = "b" -> "B" [] c = "c" -> "C"
                  [] c = "e" -> "E" [] OTHER -> c
lower(s) == [j \in 1..Len(s) |-> LowerChar(s[j])]
upper(s) == [j \in 1..Len(s) |-> UpperChar(s[j])]

RECURSIVE lstrip(_)
lstrip(s) == IF s # <<>> /\ Head(s) = " " THEN lstrip(Tail(s)) ELSE s
RECURSIVE rstrip(_)
rstrip(s) == IF s # <<>> /\ s[Len(s)] = " " THEN rstrip(SubSeq(s, 1, Len(s) - 1)) ELSE s
strip(s) == rstrip(lstrip(s))

\* dict.get(key, default)
Get(d, k, default) == IF k \in DOMAIN d THEN d[k] ELSE default

\* ------------------------------------------------------------------------
\* Manifest
\* ------------------------------------------------------------------------
\* for t in manifest.get("tiers", []): if t.get("tier") == args.tier: break
\* The position of the entry found, 0 when the loop ends without a match.
LastTier(tiers, tier, k) ==
    IF \E j \in k..Len(tiers) : Get(tiers[j], "tier", "") = tier
    THEN CHOOSE j \in k..Len(tiers) :
            /\ Get(tiers[j], "tier", "") = tier
            /\ \A i \in (j + 1)..Len(tiers) : Get(tiers[i], "tier", "") # tier
    ELSE 0
RECURSIVE FindTier(_, _, _)
FindTier(tiers, tier, k) ==
    IF k > Len(tiers) THEN 0
    ELSE IF Get(tiers[k], "tier", "") = tier THEN k
    ELSE FindTier(tiers, tier, k + 1)

Filename(artifact) == Get(artifact, "filename", "")

NoLower(artifact) == strip(Get(artifact, "sha256_hex", <<>>))
\* (artifact.get("sha256_hex") or "").strip().lower()
Sha256Hex(artifact) == lower(strip(Get(artifact, "sha256_hex", <<>>)))

\* artifact.get("urls") or []
Urls(artifact) == Get(artifact, "urls", <<>>)

\* The digest the manifests of the model declare, as sha256sum prints it.
GoodHex == _sha256_file(File(Body(Good)))

\* The same digest as a manifest author may write it, and a value that
\* declares none.
PaddedHex == <<" ">> \o upper(GoodHex) \o <<" ">>
BlankHex == <<" ">>

UrlLists == {[j \in 1..n |-> j] : n \in 0..MaxUrls}
OneUrl == [j \in 1..1 |-> j]

\* The artifact descriptors of the manifests of the model: with a digest and
\* without one for every mirror list, and the other spellings with one mirror.
Artifacts ==
    {[filename |-> "a.bin", sha256_hex |-> PaddedHex, urls |-> u] : u \in UrlLists}
    \cup {[filename |-> "a.bin", urls |-> u] : u \in UrlLists}
    \cup {[filename |-> "a.bin", sha256_hex |-> GoodHex, urls |-> OneUrl],
          [filename |-> "a.bin", sha256_hex |-> BlankHex, urls |-> OneUrl],
          [urls |-> OneUrl]}

OtherTier == [tier |-> "tiny", artifact |-> [filename |-> "b.bin", urls |-> <<>>]]
Duplicate == [tier |-> "small", artifact |-> [filename |-> "b.bin", urls |-> <<>>]]
Entry(a) == [tier |-> "small", artifact |-> a]

TierLists == {<<>>, <<OtherTier>>}
             \cup {<<OtherTier, Entry(a), Duplicate>> : a \in Artifacts}

Manifests == {[state |-> "absent", tiers |-> <<>>], [state |-> "malformed", tiers |-> <<>>]}
             \cup {[state |-> "ok", tiers |-> t] : t \in TierLists}

Filenames == {"a.bin", "b.bin"}

\* The manifests of tier resolution: every list of at most MaxTiers entries,
\* each with the requested tier name, another one or none, and one of two
\* artifacts.
TierEntries ==
    {[tier |-> t, artifact |-> [filename |-> f, urls |-> <<>>]] :
        t \in {"small", "tiny"}, f \in Filenames}
    \cup {[artifact |-> [filename |-> "a.bin", urls |-> <<>>]]}
AnyTierLists == UNION {[1..n -> TierEntries] : n \in 0..MaxTiers}

VARIABLES
    manifest,   \* the manifest document on disk (never written by the script)
    args,       \* args[p]: the parsed command line of invocation p
    fs,         \* fs[f]: the file at cache_root/family/content_version/f
    out,        \* out[p]: the file at invocation p's --output path
    pc,         \* pc[p]: where invocation p is in main()
    idx,        \* idx[p]: position of tier_entry in the manifest, 0 for None
    ui,         \* ui[p]: position in urls of the url of the for loop
    tmp,        \* tmp[p]: the file at tmp_path
    td,         \* td[p]: the TemporaryDirectory of p exists
    resp,       \* resp[p]: the body the open response of _download delivers
    last_err,   \* last_err[p]
    signal,     \* signal[p]: exit status of the process, -1 while it runs
    result,     \* result[p]: what the invocation printed last
    hashed,     \* history: the cached file p computed a digest of
    installed,  \* history: the file p moved into the cache
    attempted,  \* history: the urls p passed to _download, in order
    unlinks,    \* history: number of times p deleted the cached file
    found,      \* history: what cached_path.exists() told p at line 104
    delivered,  \* history: the body the url of this attempt served in full
    after       \* history: p started after another invocation had fetched

vars == <<manifest, args, fs, out, pc, idx, ui, tmp, td, resp, last_err, signal,
          result, hashed, installed, attempted, unlinks, found, delivered, after>>

NoErr == [kind |-> "none", url |-> 0]

tier_entry(p) == manifest.tiers[idx[p]]
artifact(p) == Get(tier_entry(p), "artifact", <<>>)
sha256_hex(p) == Sha256Hex(artifact(p))
urls(p) == Urls(artifact(p))
\* cache_root / family / content_version / filename
cached_path(p) == Filename(artifact(p))

\* An invocation that ended with a resolved artifact.
Fetched(p) == pc[p] = "done" /\ signal[p] = 0 /\ result[p] \in {"cached_path", "out"}

\* parser.parse_args(): --tier, --require, --output; the other options keep
\* their defaults.
CommandLines == [tier : {"small"}, require : BOOLEAN, output : BOOLEAN]
NotParsed == [tier |-> "", require |-> FALSE, output |-> FALSE]

Init ==
    /\ manifest \in Manifests
    /\ args = [p \in Procs |-> NotParsed]
    /\ fs \in {[f \in Filenames |-> IF f = "a.bin" THEN c ELSE NoFile] :
                 c \in {NoFile, File(Body(Good)), File(Body(Stale))}}
    /\ out = [p \in Procs |-> NoFile]
    /\ pc = [p \in Procs |-> "start"]
    /\ idx = [p \in Procs |-> 0]
    /\ ui = [p \in Procs |-> 0]
    /\ tmp = [p \in Procs |-> NoFile]
    /\ td = [p \in Procs |-> FALSE]
    /\ resp = [p \in Procs |-> <<>>]
    /\ last_err = [p \in Procs |-> NoErr]
    /\ signal = [p \in Procs |-> -1]
    /\ result = [p \in Procs |-> "none"]
    /\ hashed = [p \in Procs |-> NoFile]
    /\ installed = [p \in Procs |-> NoFile]
    /\ attempted = [p \in Procs |-> <<>>]
    /\ unlinks = [p \in Procs |-> 0]
    /\ found = [p \in Procs |-> "unchecked"]
    /\ delivered = [p \in Procs |-> "nothing"]
    /\ after = [p \in Procs |-> FALSE]

\* ------------------------------------------------------------------------
\* Pieces of main()
\* ------------------------------------------------------------------------
\* return sig, after printing res
Return(p, sig, res) ==
    /\ pc' = [pc EXCEPT ![p] = "done"]
    /\ signal' = [signal EXCEPT ![p] = sig]
    /\ result' = [result EXCEPT ![p] = res]

\* An exception nothing catches: the interpreter prints a traceback and the
\* process exits with status 1.
Uncaught(p) == Return(p, 1, "traceback")

AlwaysZero(require) == 0
AlwaysTwo(require) == 2
\* if args.require: print(msg, file=sys.stderr); return 2 / print(msg); return 0
SoftSignal(require) == IF require THEN 2 ELSE 0

AnyExisting(exists, hex) == exists
OnlyWithoutDigest(exists, hex) == exists /\ hex = <<>>
\* cached_path.exists() and sha256_hex
CacheCandidate(exists, hex) == exists /\ hex # <<>>

AnyDigest(got, expected) == TRUE
NeverMatches(got, expected) == FALSE
SameLength(got, expected) == Len(got) = Len(expected)
\* got == sha256_hex
DigestMatches(got, expected) == got = expected

KeepFile(store, f) == store
\* cached_path.unlink(missing_ok=True)
Unlink(store, f) == [store EXCEPT ![f] = NoFile]

FirstChunk(file, body) == Len(file.data) >= 1
\* _download returns when resp.read() returns no more data
EndOfBody(file, body) == Len(file.data) = Len(body)

KeepTempDir(exists) == exists
\* leaving "with tempfile.TemporaryDirectory() as td": the directory and
\* everything in it is removed
TempDirExit(exists) == FALSE

FirstUrlAgain(list, i) == list[1]
\* for url in urls: the url of this iteration
UrlAt(list, i) == list[i]

\* for url in urls: ... else: the next url, or the else clause after the last
LoopNext(i, n) == IF i < n THEN "connect" ELSE "exhausted"

MissingBreak(i, n) == LoopNext(i, n)
\* break
AfterInstall(i, n) == "output"

KeepFirstErr(old, new) == IF old.kind = "none" THEN new ELSE old
\* last_err = e: the exception of this iteration replaces the one recorded
RecordErr(old, new) == new

\* except Exception as e: last_err = e; tmp_path.unlink(missing_ok=True),
\* then the next url of the for loop, or its else clause
Except(p, kind) ==
    /\ last_err' = [last_err EXCEPT ![p] =
                        RecordErr(@, [kind |-> kind, url |-> UrlAt(urls(p), ui[p])])]
    /\ tmp' = [tmp EXCEPT ![p] = NoFile]
    /\ resp' = [resp EXCEPT ![p] = <<>>]
    /\ ui' = [ui EXCEPT ![p] = @ + 1]
    /\ pc' = [pc EXCEPT ![p] = LoopNext(ui[p], Len(urls(p)))]

\* ------------------------------------------------------------------------
\* Steps of one invocation
\* ------------------------------------------------------------------------
\* Lines 54-102: the command line, the manifest, the tier entry, the
\* artifact fields.
Resolve(p) ==
    /\ pc[p] = "start"
    /\ after' = [after EXCEPT ![p] = \E q \in Procs \ {p} : Fetched(q)]
    /\ \E a \in CommandLines :
        LET k == IF manifest.state = "ok"
                 THEN FindTier(manifest.tiers, a.tier, 1) ELSE 0
        IN /\ args' = [args EXCEPT ![p] = a]
           /\ idx' = [idx EXCEPT ![p] = k]
           /\ IF manifest.state = "absent" THEN Return(p, 2, "message")
              ELSE IF manifest.state = "malformed" THEN Uncaught(p)
              ELSE IF k = 0 THEN Return(p, SoftSignal(a.require), "message")
              ELSE IF Filename(Get(manifest.tiers[k], "artifact", <<>>)) = ""
                   THEN Return(p, SoftSignal(a.require), "message")
              ELSE /\ pc' = [pc EXCEPT ![p] = "check"]
                   /\ UNCHANGED <<signal, result>>
    /\ UNCHANGED <<manifest, fs, out, ui, tmp, td, resp, last_err, hashed,
                   installed, attempted, unlinks, found, delivered>>

\* Line 104: if cached_path.exists() and sha256_hex
CheckCache(p) ==
    /\ pc[p] = "check"
    /\ found' = [found EXCEPT ![p] = IF fs[cached_path(p)].exists THEN "present" ELSE "absent"]
    /\ pc' = [pc EXCEPT ![p] = IF CacheCandidate(fs[cached_path(p)].exists, sha256_hex(p))
                               THEN "hash" ELSE "urls"]
    /\ UNCHANGED <<manifest, args, fs, out, idx, ui, tmp, td, resp, last_err, signal,
                   result, hashed, installed, attempted, unlinks, after, delivered>>

\* Lines 105-108: the digest of the cached file; a match is the cache hit.
HashCached(p) ==
    /\ pc[p] = "hash"
    /\ IF ~fs[cached_path(p)].exists
       THEN Uncaught(p) /\ UNCHANGED hashed
       ELSE /\ hashed' = [hashed EXCEPT ![p] = fs[cached_path(p)]]
            /\ IF DigestMatches(_sha256_file(fs[cached_path(p)]), sha256_hex(p))
               THEN Return(p, 0, "cached_path")
               ELSE /\ pc' = [pc EXCEPT ![p] = "unlink"]
                    /\ UNCHANGED <<signal, result>>
    /\ UNCHANGED <<manifest, args, fs, out, idx, ui, tmp, td, resp, last_err,
                   installed, attempted, unlinks, after, found, delivered>>

\* Line 109: cached_path.unlink(missing_ok=True)
Invalidate(p) ==
    /\ pc[p] = "unlink"
    /\ fs' = Unlink(fs, cached_path(p))
    /\ unlinks' = [unlinks EXCEPT ![p] = @ + 1]
    /\ pc' = [pc EXCEPT ![p] = "urls"]
    /\ UNCHANGED <<manifest, args, out, idx, ui, tmp, td, resp, last_err, signal,
                   result, hashed, installed, attempted, after, found, delivered>>

\* Lines 111-121: no urls is soft-missing; otherwise the temporary
\* directory is created and the for loop starts.
CheckUrls(p) ==
    /\ pc[p] = "urls"
    /\ IF urls(p) = <<>>
       THEN /\ Return(p, SoftSignal(args[p].require), "message")
            /\ UNCHANGED <<td, ui>>
       ELSE /\ td' = [td EXCEPT ![p] = TRUE]
            /\ ui' = [ui EXCEPT ![p] = 1]
            /\ pc' = [pc EXCEPT ![p] = "connect"]
            /\ UNCHANGED <<signal, result>>
    /\ UNCHANGED <<manifest, args, fs, out, idx, tmp, resp, last_err, hashed,
                   installed, attempted, unlinks, after, found, delivered>>

\* Lines 125, 44-45: urlopen(url) fails, or it answers with some complete
\* body and dest_tmp is opened for writing (created empty).
Connect(p) ==
    /\ pc[p] = "connect"
    /\ attempted' = [attempted EXCEPT ![p] = Append(@, UrlAt(urls(p), ui[p]))]
    /\ delivered' = [delivered EXCEPT ![p] = "nothing"]
    /\ \/ Except(p, "transport")
       \/ \E k \in {Good, Bad} :
            /\ resp' = [resp EXCEPT ![p] = Body(k)]
            /\ tmp' = [tmp EXCEPT ![p] = File(<<>>)]
            /\ pc' = [pc EXCEPT ![p] = "stream"]
            /\ UNCHANGED <<ui, last_err>>
    /\ UNCHANGED <<manifest, args, fs, out, idx, td, signal, result, hashed,
                   installed, unlinks, after, found>>

\* Lines 46-50: one chunk is read and written to dest_tmp, or the read fails.
Stream(p) ==
    /\ pc[p] = "stream"
    /\ ~EndOfBody(tmp[p], resp[p])
    /\ \/ /\ tmp' = [tmp EXCEPT ![p] = File(Append(@.data, resp[p][Len(@.data) + 1]))]
          /\ delivered' = [delivered EXCEPT ![p] =
                              IF Len(tmp[p].data) + 1 = Len(resp[p]) THEN resp[p][1] ELSE @]
          /\ UNCHANGED <<resp, ui, last_err, pc>>
       \/ Except(p, "transport") /\ UNCHANGED delivered
    /\ UNCHANGED <<manifest, args, fs, out, idx, td, signal, result, hashed,
                   installed, attempted, unlinks, after, found>>

\* Lines 126-129: _download has returned; the digest of tmp_path is checked
\* when the manifest declares one.
Verify(p) ==
    /\ pc[p] = "stream"
    /\ EndOfBody(tmp[p], resp[p])
    /\ IF sha256_hex(p) # <<>> /\ ~DigestMatches(_sha256_file(tmp[p]), sha256_hex(p))
       THEN Except(p, "mismatch")
       ELSE /\ pc' = [pc EXCEPT ![p] = "install"]
            /\ UNCHANGED <<tmp, resp, ui, last_err>>
    /\ UNCHANGED <<manifest, args, fs, out, idx, td, signal, result, hashed,
                   installed, attempted, unlinks, after, found, delivered>>

\* Lines 130-131: tmp_path.replace(cached_path) renames the file in one
\* step or raises OSError; after it, break leaves the loop and the with
\* block.
Install(p) ==
    /\ pc[p] = "install"
    /\ \/ /\ fs' = [fs EXCEPT ![cached_path(p)] = tmp[p]]
          /\ installed' = [installed EXCEPT ![p] = tmp[p]]
          /\ tmp' = [tmp EXCEPT ![p] = NoFile]
          /\ LET to == AfterInstall(ui[p], Len(urls(p)))
             IN /\ pc' = [pc EXCEPT ![p] = to]
                /\ td' = [td EXCEPT ![p] = IF to = "output" THEN TempDirExit(@) ELSE @]
                /\ ui' = [ui EXCEPT ![p] = IF to = "output" THEN @ ELSE @ + 1]
          /\ UNCHANGED <<resp, last_err>>
       \/ /\ Except(p, "oserror")
          /\ UNCHANGED <<fs, installed, td>>
    /\ UNCHANGED <<manifest, args, out, idx, signal, result, hashed, attempted,
                   unlinks, after, found, delivered>>

\* Lines 138-144: the else clause of the for loop, every url has failed.
Exhausted(p) ==
    /\ pc[p] = "exhausted"
    /\ td' = [td EXCEPT ![p] = TempDirExit(@)]
    /\ tmp' = [tmp EXCEPT ![p] = IF TempDirExit(td[p]) THEN @ ELSE NoFile]
    /\ Return(p, SoftSignal(args[p].require), "message")
    /\ UNCHANGED <<manifest, args, fs, out, idx, ui, resp, last_err, hashed,
                   installed, attempted, unlinks, after, found, delivered>>

\* Lines 146-154: the copy to --output, and the path printed.
Output(p) ==
    /\ pc[p] = "output"
    /\ IF args[p].output
       THEN IF fs[cached_path(p)].exists
            THEN /\ out' = [out EXCEPT ![p] = fs[cached_path(p)]]
                 /\ Return(p, 0, "out")
            ELSE Uncaught(p) /\ UNCHANGED out
       ELSE Return(p, 0, "cached_path") /\ UNCHANGED out
    /\ UNCHANGED <<manifest, args, fs, idx, ui, tmp, td, resp, last_err, hashed,
                   installed, attempted, unlinks, after, found, delivered>>

Next ==
    \E p \in Procs :
        \/ Resolve(p)
        \/ CheckCache(p)
        \/ HashCached(p)
        \/ Invalidate(p)
        \/ CheckUrls(p)
        \/ Connect(p)
        \/ Stream(p)
        \/ Verify(p)
        \/ Install(p)
        \/ Exhausted(p)
        \/ Output(p)

Spec == Init /\ [][Next]_vars

\* Invocations one after the other: an invocation starts only when every
\* invocation before it has ended (the tool run twice in a row).
OneAtATime ==
    \E p \in Procs :
        /\ \A q \in Procs : q < p => pc[q] = "done"
        /\ \/ Resolve(p)
           \/ CheckCache(p)
           \/ HashCached(p)
           \/ Invalidate(p)
           \/ CheckUrls(p)
           \/ Connect(p)
           \/ Stream(p)
           \/ Verify(p)
           \/ Install(p)
           \/ Exhausted(p)
           \/ Output(p)

SpecSeq == Init /\ [][OneAtATime]_vars

\* Tier resolution alone (lines 68-102), over every tier list of the bound:
\* each invocation reads the manifest and finds its tier entry.
InitResolve ==
    /\ manifest \in {[state |-> "ok", tiers |-> t] : t \in AnyTierLists}
    /\ args = [p \in Procs |-> NotParsed]
    /\ fs = [f \in Filenames |-> NoFile]
    /\ out = [p \in Procs |-> NoFile]
    /\ pc = [p \in Procs |-> "start"]
    /\ idx = [p \in Procs |-> 0]
    /\ ui = [p \in Procs |-> 0]
    /\ tmp = [p \in Procs |-> NoFile]
    /\ td = [p \in Procs |-> FALSE]
    /\ resp = [p \in Procs |-> <<>>]
    /\ last_err = [p \in Procs |-> NoErr]
    /\ signal = [p \in Procs |-> -1]
    /\ result = [p \in Procs |-> "none"]
    /\ hashed = [p \in Procs |-> NoFile]
    /\ installed = [p \in Procs |-> NoFile]
    /\ attempted = [p \in Procs |-> <<>>]
    /\ unlinks = [p \in Procs |-> 0]
    /\ found = [p \in Procs |-> "unchecked"]
    /\ delivered = [p \in Procs |-> "nothing"]
    /\ after = [p \in Procs |-> FALSE]

NextResolve == \E p \in Procs : Resolve(p)

SpecResolve == InitResolve /\ [][NextResolve]_vars

\* ------------------------------------------------------------------------
\* Properties
\* ------------------------------------------------------------------------
Done(p) == pc[p] = "done"
Resolved(p) == idx[p] # 0

\* The manifest entry of p declares a digest (all of them that of Body(Good)).
Declares(p) ==
    /\ Resolved(p)
    /\ "sha256_hex" \in DOMAIN artifact(p)
    /\ artifact(p).sha256_hex \in {GoodHex, PaddedHex}

\* p returned at line 108: a resolved artifact without any installation.
CacheHit(p) == Fetched(p) /\ ~installed[p].exists

\* C1: integrity invariant. With a declared digest, the file an invocation
\* moves into the cache has the declared digest, whichever mirror it came
\* from, and the cached file an invocation returns as a cache hit is one
\* whose digest it computed and that equals the declared digest.
C1_Integrity ==
    \A p \in Procs :
        Declares(p) =>
            /\ installed[p].exists => _sha256_file(installed[p]) = GoodHex
            /\ CacheHit(p) => hashed[p].exists /\ _sha256_file(hashed[p]) = GoodHex
            /\ fs[cached_path(p)].exists =>
                  \/ fs[cached_path(p)] = File(Body(Stale))
                  \/ _sha256_file(fs[cached_path(p)]) = GoodHex

\* An invocation installed the artifact after it had discarded a download
\* with another digest, and another invocation then had a cache hit.
C1_Witness ==
    \E p, q \in Procs :
        /\ p # q /\ Declares(p)
        /\ installed[p].exists /\ last_err[p].kind = "mismatch"
        /\ CacheHit(q)

\* C2 as stated: the second of two fetches in a row, the mirrors working
\* for both, has made no download attempt and resolves the same cache path,
\* with or without a digest.
C2_IdempotentAnyManifest ==
    \A p \in Procs :
        (after[p] /\ Fetched(p)) =>
            /\ attempted[p] = <<>>
            /\ \A q \in Procs : Fetched(q) => cached_path(q) = cached_path(p)

\* C2, amended: when the manifest entry declares a digest, the second of
\* two fetches in a row makes no download attempt, creates no temporary
\* file, and prints the same cache path with status 0.
C2_IdempotentWithDigest ==
    \A p \in Procs :
        (after[p] /\ Done(p) /\ Declares(p)) =>
            /\ attempted[p] = <<>>
            /\ signal[p] = 0 /\ result[p] = "cached_path"
            /\ \A q \in Procs : Fetched(q) => cached_path(q) = cached_path(p)

\* The first fetch downloaded and installed the artifact, the second one,
\* started afterwards, ended without a download.
C2_Witness ==
    \E p, q \in Procs :
        /\ after[p] /\ Done(p) /\ Declares(p)
        /\ installed[q].exists /\ Fetched(q)
        /\ attempted[p] = <<>>

\* C3: an invocation with --output that ends with a resolved artifact and
\* was not overlapped by the other invocation has left at the output path
\* the bytes of the cached file, and has printed the output path.
C3_OutputCopy ==
    \A p \in Procs :
        (args[p].output /\ Fetched(p) /\ \A q \in Procs \ {p} : pc[q] = "start") =>
            /\ out[p] = fs[cached_path(p)]
            /\ result[p] = "out"

\* Every attempt of p has failed, the last one with a transport error or a
\* digest mismatch.
AllAttemptsFailed(p) ==
    /\ Done(p) /\ attempted[p] # <<>> /\ ~installed[p].exists
    /\ last_err[p].kind \in {"transport", "mismatch"}

\* The same, with one url in the list: the one attempt made has failed with
\* a transport error or a digest mismatch.
OnlyAttemptFailed(p) == AllAttemptsFailed(p) /\ Len(urls(p)) = 1

\* C4 as stated: when every mirror attempt fails, the fetch ends with
\* signal 2, with or without --require.
C4_FailureAlwaysFatal ==
    \A p \in Procs : OnlyAttemptFailed(p) => signal[p] = 2

\* C4, amended: when every mirror attempt ends in a transport failure or a
\* digest mismatch, every url has been tried, nothing is installed, a
\* message is printed, and the fetch ends with signal 2 with --require and
\* with signal 0 without it.
C4_FailureFatalWhenRequired ==
    \A p \in Procs :
        AllAttemptsFailed(p) =>
            /\ signal[p] = IF args[p].require THEN 2 ELSE 0
            /\ result[p] = "message"
            /\ Len(attempted[p]) = Len(urls(p))

\* Without --require, the only mirror served a body with another digest:
\* the invocation ended with signal 0; with --require, the other ended
\* with signal 2.
C4_Witness ==
    \E p, q \in Procs :
        /\ AllAttemptsFailed(p) /\ ~args[p].require
        /\ last_err[p].kind = "mismatch" /\ signal[p] = 0
        /\ AllAttemptsFailed(q) /\ args[q].require /\ signal[q] = 2

\* The soft-missing conditions, read off the manifest and off what the
\* invocation found at the cache path.
TierAbsent ==
    /\ manifest.state = "ok"
    /\ \A k \in 1..Len(manifest.tiers) : manifest.tiers[k].tier # "small"
FirstMatch ==
    CHOOSE k \in 1..Len(manifest.tiers) :
        /\ manifest.tiers[k].tier = "small"
        /\ \A j \in 1..(k - 1) : manifest.tiers[j].tier # "small"
NoFilename ==
    /\ manifest.state = "ok" /\ ~TierAbsent
    /\ "filename" \notin DOMAIN manifest.tiers[FirstMatch].artifact
NoValidCopy(p) ==
    \/ found[p] = "absent"
    \/ found[p] = "present" /\ ~Declares(p)
    \/ hashed[p].exists /\ _sha256_file(hashed[p]) # GoodHex
NoMirrors(p) ==
    /\ manifest.state = "ok" /\ ~TierAbsent /\ ~NoFilename
    /\ manifest.tiers[FirstMatch].artifact.urls = <<>>
    /\ NoValidCopy(p)

\* C5: strict-mode escalation. An invocation that ends under a soft-missing
\* condition (tier absent, no artifact filename, no urls and no valid cached
\* copy) ends with signal 2 with --require and 0 without, prints a message,
\* and has made no download attempt.
C5_StrictEscalation ==
    \A p \in Procs :
        (Done(p) /\ (TierAbsent \/ NoFilename \/ NoMirrors(p))) =>
            /\ signal[p] = IF args[p].require THEN 2 ELSE 0
            /\ result[p] = "message"
            /\ attempted[p] = <<>> /\ ~td[p] /\ ~installed[p].exists

\* No urls and a cached file whose digest differs: one invocation ended
\* with signal 2 under --require, the other with signal 0 without it.
C5_Witness ==
    \E p, q \in Procs :
        /\ Done(p) /\ NoMirrors(p) /\ hashed[p].exists /\ args[p].require /\ signal[p] = 2
        /\ Done(q) /\ NoMirrors(q) /\ ~args[q].require /\ signal[q] = 0

\* p has computed the digest of the cached file and it is not the declared one.
SawStale(p) ==
    Declares(p) /\ hashed[p].exists /\ _sha256_file(hashed[p]) # GoodHex

\* C6: corruption self-heal. Once an invocation has found the cached file
\* not to match the declared digest, its next step deletes the file, before
\* any download or temporary file; that file is not at the cache path (nor
\* at the output path) afterwards, so it is never the result; with urls the
\* invocation goes on to download, without urls it reports soft-missing.
C6_SelfHeal ==
    \A p \in Procs :
        SawStale(p) =>
            /\ pc[p] = "unlink" => unlinks[p] = 0 /\ attempted[p] = <<>> /\ ~td[p]
            /\ pc[p] # "unlink" =>
                  /\ unlinks[p] = 1
                  /\ fs[cached_path(p)] # hashed[p]
                  /\ out[p] # hashed[p]
            /\ Fetched(p) => installed[p].exists /\ _sha256_file(installed[p]) = GoodHex
            /\ (Done(p) /\ urls(p) # <<>>) => attempted[p] # <<>>
            /\ (Done(p) /\ urls(p) = <<>>) =>
                  /\ attempted[p] = <<>> /\ result[p] = "message"
                  /\ signal[p] = IF args[p].require THEN 2 ELSE 0

\* A stale cached file was found and deleted, and the artifact was then
\* downloaded and installed in its place.
C6_Witness ==
    \E p \in Procs :
        /\ SawStale(p) /\ unlinks[p] = 1 /\ Fetched(p)
        /\ fs[cached_path(p)] = File(Body(Good))
        /\ \A q \in Procs \ {p} : pc[q] = "start"

\* The last url of the list has served a complete body with the declared
\* digest (any body when none is declared), and the rename of that body has
\* not failed.
LastUrlDelivers(p) ==
    /\ Done(p) /\ Resolved(p)
    /\ attempted[p] # <<>> /\ Len(attempted[p]) = Len(urls(p))
    /\ delivered[p] # "nothing"
    /\ Declares(p) => delivered[p] = Good
    /\ ~(last_err[p].kind = "oserror" /\ last_err[p].url = urls(p)[Len(urls(p))])

\* C7: mirror fallback. When the attempts before the last url of the list
\* have failed and the last url serves the right content, the invocation
\* ends with signal 0 and a resolved path, and the file it installed at the
\* cache path is the body the last url served.
C7_MirrorFallback ==
    \A p \in Procs :
        LastUrlDelivers(p) =>
            /\ signal[p] = 0 /\ Fetched(p)
            /\ installed[p] = File(Body(delivered[p]))
            /\ (\A q \in Procs : q > p => pc[q] = "start") =>
                  fs[cached_path(p)] = File(Body(delivered[p]))

\* Two urls: the first attempt ended with a digest mismatch, the second
\* served the artifact, which was installed.
C7_Witness ==
    \E p \in Procs :
        /\ LastUrlDelivers(p) /\ Len(attempted[p]) = MaxUrls
        /\ last_err[p].kind = "mismatch" /\ last_err[p].url = MaxUrls - 1
        /\ installed[p] = File(Body(Good))

Partial(file) == file.exists /\ file \notin CompleteFiles

\* C8: atomic install. At every moment, under every interleaving of the two
\* invocations, each cache path holds no file or a complete file; a file
\* that is partly written exists only at the tmp_path of the invocation
\* that is downloading it.
C8_AtomicInstall ==
    /\ \A f \in Filenames : ~Partial(fs[f])
    /\ \A p \in Procs : Partial(tmp[p]) => pc[p] = "stream" /\ td[p]

\* One invocation is part-way through a download while the other has had a
\* download fail after its first chunk, and the cache path holds a file.
C8_Witness ==
    \E p, q \in Procs :
        /\ Partial(tmp[p]) /\ tmp[p].data # <<>>
        /\ last_err[q].kind = "transport" /\ delivered[q] = "nothing" /\ Done(q)
        /\ Resolved(p) /\ fs[cached_path(p)].exists

\* C9: when a rename of the verified temporary file into the cache has
\* failed, the invocation ends with signal 2, with and without --require,
\* and reports no artifact.
C9_InstallErrorFatal ==
    \A p \in Procs :
        (Done(p) /\ last_err[p].kind = "oserror") => signal[p] = 2 /\ ~Fetched(p)

\* C10: temporary-file cleanup. An invocation that reached the download
\* step and has ended, on whichever path, has left neither its temporary
\* file nor its temporary directory; both exist only inside the loop.
C10_TempCleanup ==
    \A p \in Procs :
        /\ (Done(p) /\ attempted[p] # <<>>) => ~td[p] /\ ~tmp[p].exists
        /\ pc[p] \in {"start", "check", "hash", "unlink", "urls", "output", "done"} =>
              ~td[p] /\ ~tmp[p].exists
        /\ tmp[p].exists => td[p]

\* Both invocations downloaded and have ended, one having installed the
\* artifact after a digest mismatch, the other with every url failed.
C10_Witness ==
    \E p, q \in Procs :
        /\ Done(p) /\ installed[p].exists /\ last_err[p].kind = "mismatch"
        /\ Done(q) /\ ~installed[q].exists /\ Len(attempted[q]) = MaxUrls
        /\ last_err[q].kind = "transport"

\* C11: manifest-level errors are always fatal. An invocation whose manifest
\* is absent or cannot be parsed ends with signal 2, with and without
\* --require, before any tier resolution, cache access or download.
C11_ManifestErrorFatal ==
    \A p \in Procs :
        (Done(p) /\ manifest.state \in {"absent", "malformed"}) =>
            /\ signal[p] = 2
            /\ idx[p] = 0 /\ found[p] = "unchecked" /\ attempted[p] = <<>>

\* p has computed the digest of the cached file and it is the declared one.
SawValid(p) ==
    Declares(p) /\ hashed[p].exists /\ _sha256_file(hashed[p]) = GoodHex

\* C12: the cache-hit fast path has no effects. An invocation that finds a
\* cached file with the declared digest has ended with signal 0 and the
\* cache path as its result, without a download attempt, a temporary
\* directory or file, a deletion or an installation, and the cached file is
\* still the one it found.
C12_CacheHitNoEffects ==
    \A p \in Procs :
        SawValid(p) =>
            /\ Done(p) /\ signal[p] = 0 /\ result[p] = "cached_path"
            /\ attempted[p] = <<>> /\ ~td[p] /\ ~tmp[p].exists
            /\ unlinks[p] = 0 /\ ~installed[p].exists
            /\ fs[cached_path(p)] = hashed[p]

\* A cache hit on the file the cache held from the start, while the other
\* invocation has not started.
C12_Witness ==
    \E p \in Procs :
        /\ SawValid(p) /\ CacheHit(p)
        /\ \A q \in Procs \ {p} : pc[q] = "start"

\* attempted[p] is the first urls of the manifest entry, in manifest order.
InManifestOrder(p) ==
    /\ Len(attempted[p]) <= Len(urls(p))
    /\ \A j \in 1..Len(attempted[p]) : attempted[p][j] = urls(p)[j]

\* C13: mirror ordering. The urls an invocation has passed to _download are
\* the first urls of the list, in list order, each position once; while
\* attempt k+1 runs, attempt k is the one that failed last; one temporary
\* file is written at a time; and once a download has been installed, the
\* invocation is past the loop, so that no later url is attempted.
C13_MirrorOrdering ==
    \A p \in Procs :
        Resolved(p) =>
            /\ InManifestOrder(p)
            /\ pc[p] \in {"connect", "stream", "install"} =>
                  /\ ui[p] \in 1..Len(urls(p))
                  /\ Len(attempted[p]) = IF pc[p] = "connect" THEN ui[p] - 1 ELSE ui[p]
                  /\ ui[p] > 1 => last_err[p].kind # "none" /\ last_err[p].url = urls(p)[ui[p] - 1]
                  /\ ui[p] = 1 => last_err[p] = NoErr
                  /\ ~installed[p].exists
            /\ installed[p].exists =>
                  /\ pc[p] \in {"output", "done"}
                  /\ Len(attempted[p]) = ui[p]
                  /\ last_err[p].url # urls(p)[ui[p]]

\* With the longest list, every attempt but the last failed and the last
\* one was installed.
C13_Witness ==
    \E p \in Procs :
        /\ Resolved(p) /\ Len(attempted[p]) = MaxUrls /\ MaxUrls > 1
        /\ installed[p].exists /\ Done(p)
        /\ last_err[p].url = urls(p)[MaxUrls - 1]

\* p is at, or has returned from, the else clause of the mirror loop
\* (lines 138-144), whose message carries last_err.
ReportsExhaustion(p) ==
    \/ pc[p] = "exhausted"
    \/ Done(p) /\ result[p] = "message" /\ attempted[p] # <<>>

\* C14: mirror exhaustion. The failure of the download is reported only
\* when every url of the list has been attempted and none was installed, and
\* the cause in the message is the error of the last url of the list: a
\* transport error when that attempt delivered no complete body, a digest
\* mismatch or a failed rename when it delivered one.
C14_Exhaustion ==
    \A p \in Procs :
        ReportsExhaustion(p) =>
            /\ attempted[p] = urls(p)
            /\ ~installed[p].exists
            /\ last_err[p].url = urls(p)[Len(urls(p))]
            /\ last_err[p].kind \in {"transport", "mismatch", "oserror"}
            /\ last_err[p].kind = "transport" <=> delivered[p] = "nothing"
            /\ last_err[p].kind = "mismatch" => delivered[p] = Bad /\ Declares(p)

\* Every url of the longest list has failed, the last one on its digest, and
\* the strict invocation ends with signal 2.
C14_Witness ==
    \E p \in Procs :
        /\ Done(p) /\ ReportsExhaustion(p) /\ Len(attempted[p]) = MaxUrls /\ MaxUrls > 1
        /\ last_err[p].kind = "mismatch" /\ signal[p] = 2

\* p found no file at the cache path and installed a download of its own.
FetchedMissing(p) ==
    /\ Declares(p) /\ Done(p)
    /\ found[p] = "absent" /\ installed[p].exists

\* C15: uncoordinated concurrent fetches converge. When both invocations
\* found the artifact missing, the manifest declares a digest and both
\* installed a download, both end with signal 0 and the cache path holds
\* one complete file with the declared digest.
C15_ConcurrentConverge ==
    (\A p \in Procs : FetchedMissing(p)) =>
        /\ \A p \in Procs : Fetched(p)
        /\ fs[cached_path(1)].exists
        /\ ~Partial(fs[cached_path(1)])
        /\ _sha256_file(fs[cached_path(1)]) = strip(lower(artifact(1).sha256_hex))
        /\ cached_path(1) = cached_path(2)

\* Both invocations have downloaded: each one started its download before
\* the other one installed.
C15_Witness ==
    /\ \A p \in Procs : FetchedMissing(p) /\ ~after[p]
    /\ \E p \in Procs : Len(attempted[p]) > 1

\* The positions of the tier list whose entry has the tier p requested.
Matching(p) ==
    {k \in 1..Len(manifest.tiers) :
        /\ "tier" \in DOMAIN manifest.tiers[k]
        /\ manifest.tiers[k].tier = args[p].tier}

\* C16: tier resolution is first-match. For every tier list, with or
\* without several entries of the requested tier, an invocation that has read
\* the manifest uses the entry at the least matching position, and reports
\* the tier absent exactly when no position matches.
C16_FirstMatch ==
    \A p \in Procs :
        pc[p] # "start" =>
            IF Matching(p) = {}
            THEN /\ idx[p] = 0 /\ Done(p) /\ result[p] = "message"
                 /\ signal[p] = IF args[p].require THEN 2 ELSE 0
            ELSE /\ idx[p] \in Matching(p)
                 /\ \A k \in Matching(p) : idx[p] <= k
                 /\ pc[p] = "check"
                 /\ cached_path(p) = manifest.tiers[idx[p]].artifact.filename

\* The requested tier is at the second and the third position, with
\* different artifacts, and the second one is used.
C16_Witness ==
    \E p \in Procs :
        /\ pc[p] = "check" /\ idx[p] = 2 /\ Matching(p) = {2, 3}
        /\ manifest.tiers[3].artifact.filename # cached_path(p)

\* C17: a cache file that an invocation has installed after verification,
\* or has returned with signal 0, is still at the cache path with the
\* declared digest, whatever the other invocation does.
C17_InstalledStays ==
    \A p \in Procs :
        (Declares(p) /\ (installed[p].exists \/ Fetched(p))) =>
            /\ fs[cached_path(p)].exists
            /\ _sha256_file(fs[cached_path(p)]) = GoodHex

\* The step deletes the file f that invocation p hashed and found different
\* from the digest its manifest entry declares.
DeletesUnverified(p, f) ==
    /\ pc[p] = "unlink" /\ Declares(p)
    /\ hashed[p] = fs[f] /\ _sha256_file(hashed[p]) # GoodHex
    /\ fs'[f] = NoFile

\* The step replaces f as a whole by the file p has downloaded.
ReplacesWhole(p, f) ==
    /\ pc[p] = "install" /\ pc'[p] = "output"
    /\ tmp[p] \in CompleteFiles
    /\ fs'[f] = tmp[p]

\* C18: frame of the cache. A step of a fetch changes the file at a cache
\* path only by deleting a file that failed verification against a declared
\* digest, or by replacing it as a whole with a complete downloaded file; so
\* without a declared digest an existing cache file is never deleted, and a
\* fetch whose attempts all fail, or that has no urls, leaves it as it was.
C18_CacheFrame ==
    [][\A f \in Filenames :
          fs'[f] # fs[f] =>
              \E p \in Procs :
                  /\ Resolved(p) /\ cached_path(p) = f
                  /\ DeletesUnverified(p, f) \/ ReplacesWhole(p, f)]_vars

\* Without a declared digest, a fetch found a stale file in the cache, every
\* mirror attempt failed, and the file is still there.
C18_Witness ==
    \E p \in Procs :
        /\ Resolved(p) /\ ~Declares(p) /\ "sha256_hex" \notin DOMAIN artifact(p)
        /\ found[p] = "present" /\ AllAttemptsFailed(p) /\ unlinks[p] = 0
        /\ fs[cached_path(p)] = File(Body(Stale))

\* C19: every invocation that has ended made at most len(urls) download
\* attempts, at most one deletion and at most one installation, and ended
\* with signal 0 or 2.
C19_BoundedTermination ==
    \A p \in Procs :
        Done(p) =>
            /\ signal[p] \in {0, 2}
            /\ unlinks[p] <= 1
            /\ Resolved(p) => Len(attempted[p]) <= Len(urls(p))
            /\ ~Resolved(p) => attempted[p] = <<>>

====
